---------------------------- MODULE Spec2Model ----------------------------
(***************************************************************************)
(* A model of the nnrecommend scoring model (src/nnrecommend/fmachine.py), *)
(* of the recommend command (src/nnrecommend/cli/recommend.py) and of the  *)
(* Dataset pipeline exercised by src/nnrecommend/tests/test_movielens.py.  *)
(*                                                                         *)
(* Tensors are sequences (a batch is a sequence of examples, an example a  *)
(* sequence of field vectors, a vector a sequence of numbers).  Numbers    *)
(* are integers: every operation of the model (sum, product, difference,   *)
(* halving an even number) is exact on them, so the rounding of floating   *)
(* point is outside the model.                                             *)
(***************************************************************************)
EXTENDS Integers, Sequences, FiniteSets, TLC

VARIABLES
    \* FactorizationMachineOperation called on its own
    fm_reduce_sum,  \* self.reduce_sum
    fm_x,           \* the argument of forward
    fm_out,         \* what forward returned (<<>> before the call)
    \* FactorizationMachineModel
    field_dim, embed_dim,
    linear,         \* LinearFeatures: [fc: id -> weight, bias]
    embedding,      \* torch.nn.Embedding or GraphModel
    ew,             \* outcome of the last get_embedding_weight()
    fwd,            \* the last forward(): its input, the embeddings, its result
    \* the recommend command
    pc, ret, item_names, topk, bundle, model, finder, recommender, idx, handled, log,
    \* Dataset
    ds_pc, rows, idrange, iddiff, matrix, rng, positives, num_negatives

fmVars    == <<fm_reduce_sum, fm_x, fm_out>>
modelVars == <<field_dim, embed_dim, linear, embedding, ew, fwd>>
cliVars   == <<pc, ret, item_names, topk, bundle, model, finder, recommender, idx, handled, log>>
dsVars    == <<ds_pc, rows, idrange, iddiff, matrix, rng, positives, num_negatives>>
vars      == <<fmVars, modelVars, cliVars, dsVars>>

\* a call not made yet has returned nothing
NoResult == [kind |-> "none"]
NoCall   == [x |-> <<>>, emb |-> <<>>, out |-> <<>>]

-----------------------------------------------------------------------------
(* Bounds *)

\* the largest number of elements (batch * fields * dim) of a tensor given to
\* FactorizationMachineOperation.forward on its own
MaxElems == 6
\* the values of tensor elements and of parameters
Vals == {-1, 0, 1, 2}

-----------------------------------------------------------------------------
(* Tensor helpers *)

RECURSIVE SumSeq(_)
\* torch.sum over a one-dimensional tensor
SumSeq(s) == IF s = <<>> THEN 0 ELSE Head(s) + SumSeq(Tail(s))

\* torch.sum(x, dim=1) of one example, at dimension d: the sum over the fields
SumFields(ex, d) == SumSeq([f \in 1..Len(ex) |-> ex[f][d]])

\* torch.sum(x ** 2, dim=1) of one example, at dimension d
SumSquares(ex, d) == SumSeq([f \in 1..Len(ex) |-> ex[f][d] * ex[f][d]])

\* 0.5 * v; v is even wherever the model halves
Half(v) == v \div 2

-----------------------------------------------------------------------------
(* FactorizationMachineOperation *)

\* square_of_sum - sum_of_square of one example, at dimension d
Ix(ex, d) == SumFields(ex, d) * SumFields(ex, d) - SumSquares(ex, d)

\* a slip: the squares of the fields are not taken away
FMForwardNoSquares(x, reduce_sum) ==
    [b \in 1..Len(x) |->
        IF reduce_sum
        THEN <<Half(SumSeq([d \in 1..Len(x[b][1]) |-> SumFields(x[b], d) * SumFields(x[b], d)]))>>
        ELSE [d \in 1..Len(x[b][1]) |-> Half(SumFields(x[b], d) * SumFields(x[b], d))]]

\* FactorizationMachineOperation.forward: ix = square_of_sum - sum_of_square,
\* summed over the dimensions (keepdim) when reduce_sum, then halved
FMForward(x, reduce_sum) ==
    [b \in 1..Len(x) |->
        IF reduce_sum
        THEN <<Half(SumSeq([d \in 1..Len(x[b][1]) |-> Ix(x[b], d)]))>>
        ELSE [d \in 1..Len(x[b][1]) |-> Half(Ix(x[b], d))]]

\* the shapes <<batch, fields, dim>> of the tensors forward is given
Shapes == {s \in (1..MaxElems) \X (1..MaxElems) \X (1..MaxElems) : s[1] * s[2] * s[3] <= MaxElems}

Tensors(s) == [1..s[1] -> [1..s[2] -> [1..s[3] -> Vals]]]

IdleFM == fm_reduce_sum = FALSE /\ fm_x = <<>> /\ fm_out = <<>>

InitFM ==
    /\ fm_reduce_sum \in BOOLEAN
    /\ \E s \in Shapes : fm_x \in Tensors(s)
    /\ fm_out = <<>>

\* fm(x)
FMCall ==
    /\ fm_x # <<>>
    /\ fm_out = <<>>
    /\ fm_out' = FMForward(fm_x, fm_reduce_sum)
    /\ UNCHANGED <<fm_reduce_sum, fm_x, modelVars, cliVars, dsVars>>

-----------------------------------------------------------------------------
(* The convolution layers of torch_geometric, as far as GraphModel reads   *)
(* them: the attributes a layer has and the shape of each weight.  The     *)
(* library's releases differ: 1.x keeps GCNConv.weight (in, out) and       *)
(* GATConv.lin_l / lin_r (Linear(in, heads * out), weight (heads*out, in)),*)
(* 2.x keeps GCNConv.lin and GATConv.lin_src / lin_dst.                    *)

\* the largest field_dim (size of the id space) of a model
MaxFieldDim == 3
\* the largest batch given to forward
MaxBatch == 2
\* embed_dim of a model
EmbedDims == {1, 2}
\* the number of fields of a row
FieldCounts == {1, 2, 3}
\* what the parameters are generated from
Seeds == {-1, 0, 2}

\* GATConv(field_dim, embed_dim, heads=8, dropout=0.6)
Heads == 8

Layouts == {"1.x", "2.x"}

\* torch.nn.Linear(in_features, out_features, bias=False): weight is (out, in)
Linear(in_features, out_features) == [weight |-> <<out_features, in_features>>]

GCNConv(in_channels, out_channels, layout) ==
    [type |-> "GCNConv", out_dim |-> out_channels,
     attrs |-> IF layout = "1.x"
               THEN [a \in {"weight"} |-> <<in_channels, out_channels>>]
               ELSE [a \in {"lin"} |-> Linear(in_channels, out_channels)]]

GATConv(in_channels, out_channels, heads, layout) ==
    [type |-> "GATConv", out_dim |-> heads * out_channels,
     attrs |-> IF layout = "1.x"
               THEN [a \in {"lin_l", "lin_r"} |-> Linear(in_channels, heads * out_channels)]
               ELSE [a \in {"lin_src", "lin_dst"} |-> Linear(in_channels, heads * out_channels)]]

\* hasattr(obj, name)
HasAttr(obj, name) == name \in DOMAIN obj.attrs

\* t.transpose(0, 1) of a matrix, which the model keeps as its shape
Transpose(shape) == <<shape[2], shape[1]>>

Ok(shape) == [kind |-> "ok", shape |-> shape]
Raise(exc) == [kind |-> "raise", exc |-> exc]

-----------------------------------------------------------------------------
(* Parameters.  A table of numbers is generated from a few seeds, so that  *)
(* the number of models does not grow with the size of the tables.         *)

\* the weights of torch.nn.Embedding(field_dim, 1): one number per id
FcTable(fd, a) == [i \in 0..(fd - 1) |-> a * i + 1]
\* a matrix with one row of length dim per id
EmbTable(fd, dim, a, b) == [i \in 0..(fd - 1) |-> [d \in 1..dim |-> a * (i + d) + b * ((i * d) % 2) + d]]

-----------------------------------------------------------------------------
(* LinearFeatures *)

LinearFeatures(fd, a, bias) == [fc |-> FcTable(fd, a), bias |-> bias]

\* LinearFeatures.forward, without the bias
LinearForwardNoBias(lin, x) ==
    [b \in 1..Len(x) |-> <<SumSeq([f \in 1..Len(x[b]) |-> lin.fc[x[b][f]]])>>]

\* LinearFeatures.forward: torch.sum(self.fc(x), dim=1) + self.bias, of shape (batch, 1)
LinearForward(lin, x) ==
    [b \in 1..Len(x) |-> <<SumSeq([f \in 1..Len(x[b]) |-> lin.fc[x[b][f]]]) + lin.bias>>]

-----------------------------------------------------------------------------
(* GraphModel *)

GraphModel(fd, ed, attention, layout) ==
    [class |-> "GraphModel",
     attrs |-> [a \in {"get_embedding_weight", "gcn", "features", "matrix"} |-> <<>>],
     gcn   |-> IF attention THEN GATConv(fd, ed, Heads, layout) ELSE GCNConv(fd, ed, layout)]

\* GraphModel.get_embedding_weight
GraphGetEmbeddingWeight(g) ==
    IF HasAttr(g.gcn, "lin_r")
    THEN Ok(Transpose(g.gcn.attrs["lin_r"].weight))
    ELSE IF HasAttr(g.gcn, "weight")
         THEN Ok(g.gcn.attrs["weight"])
         ELSE Raise("AttributeError")

\* what self.gcn(self.features, self.matrix) may return: one row of out_dim numbers per node
ConvOutputs(fd, g) == {EmbTable(fd, g.gcn.out_dim, a, 1) : a \in Seeds}

\* t[x]: the rows of t the ids of x name
Lookup(t, x) == [b \in 1..Len(x) |-> [f \in 1..Len(x[b]) |-> t[x[b][f]]]]

-----------------------------------------------------------------------------
(* FactorizationMachineModel *)

\* torch.nn.Embedding(field_dim, embed_dim)
Embedding(fd, ed, a, b) ==
    [class |-> "Embedding",
     attrs |-> [n \in {"weight"} |-> <<fd, ed>>],
     weight |-> EmbTable(fd, ed, a, b)]

\* FactorizationMachineModel.get_embedding_weight
GetEmbeddingWeight(e) ==
    IF HasAttr(e, "get_embedding_weight")
    THEN GraphGetEmbeddingWeight(e)
    ELSE IF HasAttr(e, "weight")
         THEN Ok(e.attrs["weight"])
         ELSE Raise("UnsupportedOperation")

\* t.squeeze(1) of a tensor of shape (batch, m)
Squeeze1(t) == IF \A b \in 1..Len(t) : Len(t[b]) = 1 THEN [b \in 1..Len(t) |-> t[b][1]] ELSE t

\* l + f of two tensors of the same shape (batch, m)
AddTensors(l, f) == [b \in 1..Len(l) |-> [j \in 1..Len(l[b]) |-> l[b][j] + f[b][j]]]

\* FactorizationMachineModel.forward, given what self.embedding(interactions) returned
ModelForward(lin, emb_x, x) ==
    Squeeze1(AddTensors(LinearForward(lin, x), FMForward(emb_x, TRUE)))

\* the rows of n fields over the ids of the model, in a fixed order
RowAt(fd, n, k) == [f \in 1..n |-> (k \div (fd ^ (n - f))) % fd]
\* the batch of the size rows that start at row k
BatchAt(fd, n, k, size) == [b \in 1..size |-> RowAt(fd, n, (k + b - 1) % (fd ^ n))]

IdleModel ==
    /\ field_dim = 0 /\ embed_dim = 0
    /\ linear = [fc |-> <<>>, bias |-> 0] /\ embedding = [class |-> "None"]
    /\ ew = NoResult /\ fwd = NoCall

\* FactorizationMachineModel.__init__, and any training since.  No call
\* changes the model, so a behaviour makes one call on it: every call is
\* made on every model.
InitModel ==
    /\ field_dim \in 2..MaxFieldDim
    /\ embed_dim \in EmbedDims
    /\ \E a \in Seeds, bias \in Seeds : linear = LinearFeatures(field_dim, a, bias)
    /\ \/ \E a \in Seeds, b \in Seeds : embedding = Embedding(field_dim, embed_dim, a, b)
       \/ \E attention \in BOOLEAN, layout \in Layouts :
             embedding = GraphModel(field_dim, embed_dim, attention, layout)
    /\ ew = NoResult
    /\ fwd = NoCall

\* model.get_embedding_weight()
CallGetEmbeddingWeight ==
    /\ embedding.class # "None"
    /\ ew = NoResult /\ fwd = NoCall
    /\ ew' = GetEmbeddingWeight(embedding)
    /\ UNCHANGED <<field_dim, embed_dim, linear, embedding, fwd, fmVars, cliVars, dsVars>>

\* model(interactions) with the plain lookup table
CallForwardPlain ==
    /\ embedding.class = "Embedding"
    /\ fwd = NoCall /\ ew = NoResult
    /\ \E n \in FieldCounts, size \in 1..MaxBatch : \E k \in 0..(field_dim ^ n - 1) :
       \E x \in {BatchAt(field_dim, n, k, size)} :
       \E emb_x \in {Lookup(embedding.weight, x)} :
          fwd' = [x |-> x, emb |-> emb_x, out |-> ModelForward(linear, emb_x, x)]
    /\ UNCHANGED <<field_dim, embed_dim, linear, embedding, ew, fmVars, cliVars, dsVars>>

\* model(interactions) with the graph embedding
CallForwardGraph ==
    /\ embedding.class = "GraphModel"
    /\ fwd = NoCall /\ ew = NoResult
    /\ \E n \in FieldCounts, size \in 1..MaxBatch : \E k \in 0..(field_dim ^ n - 1) :
       \E h \in ConvOutputs(field_dim, embedding) :
       \E x \in {BatchAt(field_dim, n, k, size)} :
       \E emb_x \in {Lookup(h, x)} :
          fwd' = [x |-> x, emb |-> emb_x, out |-> ModelForward(linear, emb_x, x)]
    /\ UNCHANGED <<field_dim, embed_dim, linear, embedding, ew, fmVars, cliVars, dsVars>>

-----------------------------------------------------------------------------
(* The recommend command.  load_model (nnrecommend.dataset), Finder and    *)
(* Recommender (nnrecommend.operation) are taken from their description:   *)
(* load_model either raises or returns the bundle (model, idrange, items), *)
(* Finder returns the catalog row a query matches or raises NotFoundError, *)
(* and Recommender returns at most topk rows other than the liked one, or  *)
(* raises.                                                                 *)

\* the largest number of --item options of an invocation
MaxQueries == 3
\* the largest --topk
MaxTopK == 2

\* the item table of the bundle: the id of each name
Catalog == [n \in {"alien", "brazil", "casablanca"} |-> CASE n = "alien" -> 0 [] n = "brazil" -> 1 [] OTHER -> 2]
\* what --item may name
QueryNames == {"alien", "brazil", "zzz"}
\* what a call of the recommender may end with
RecommenderOutcomes == {"ok", "RuntimeError"}

Info(msg)  == [level |-> "info", msg |-> msg]
Error(msg) == [level |-> "error", msg |-> msg]

\* Finder.__call__
Find(name) == IF name \in DOMAIN Catalog THEN [kind |-> "ok", id |-> Catalog[name]] ELSE Raise("NotFoundError")

RECURSIVE Ascending(_)
\* the ids of a set, in ascending order
Ascending(ids) ==
    IF ids = {} THEN <<>>
    ELSE LET m == CHOOSE i \in ids : \A j \in ids : i <= j IN <<m>> \o Ascending(ids \ {m})

\* Recommender.__call__: at most topk catalog ids other than the liked one
Recommend(liked, k) ==
    LET others == Ascending({Catalog[n] : n \in DOMAIN Catalog} \ {liked})
    IN  SubSeq(others, 1, IF k < Len(others) THEN k ELSE Len(others))

\* a slip: a bundle without a model is not turned away
ReadModelNoCheck(b) ==
    IF b.raises
    THEN [next |-> "returned", ret |-> "False", model |-> "unset",
          entries |-> <<Info("reading model file..."), Error("failed to load model file")>>]
    ELSE [next |-> "loop", ret |-> "running", model |-> b.model,
          entries |-> <<Info("reading model file..."), Info("loaded model")>>]

\* recommend, from its start to the loop over item_names: the try around
\* load_model, the test of the model
ReadModel(b) ==
    IF b.raises
    THEN [next |-> "returned", ret |-> "False", model |-> "unset",
          entries |-> <<Info("reading model file..."), Error("failed to load model file")>>]
    ELSE IF b.model = "None"
         THEN [next |-> "returned", ret |-> "None", model |-> "None",
               entries |-> <<Info("reading model file..."), Error("could not load model")>>]
         ELSE [next |-> "loop", ret |-> "running", model |-> b.model,
               entries |-> <<Info("reading model file..."), Info("loaded model")>>]

\* the body of the loop over item_names, for one name: what it logs and the
\* exception that leaves it, if any
RunQuery(name, k, outcome) ==
    LET r == Find(name) IN
    IF r.kind = "raise"
    THEN [raised |-> r.exc, entries |-> <<>>]
    ELSE IF outcome # "ok"
         THEN [raised |-> outcome,
               entries |-> <<Info("found"), Info("looking for recommendations...")>>]
         ELSE [raised |-> "no",
               entries |-> <<Info("found"), Info("looking for recommendations...")>>
                           \o [j \in 1..Len(Recommend(r.id, k)) |-> Info("rating")]]

InitRecommend ==
    /\ pc = "start" /\ ret = "running"
    /\ \E n \in 0..MaxQueries : item_names \in [1..n -> QueryNames]
    /\ topk \in 1..MaxTopK
    /\ bundle \in [raises : BOOLEAN, model : {"None", "FM"}]
    /\ model = "unset"
    /\ finder = FALSE /\ recommender = FALSE
    /\ idx = 0 /\ handled = {} /\ log = <<>>

\* recommend, up to the loop: lines 26-49
ReadModelFile ==
    /\ pc = "start"
    /\ \E r \in {ReadModel(bundle)} :
          /\ pc' = r.next
          /\ ret' = r.ret
          /\ model' = r.model
          /\ log' = log \o r.entries
          /\ finder' = (r.next = "loop")
          /\ recommender' = (r.next = "loop")
          /\ idx' = IF r.next = "loop" THEN 1 ELSE 0
    /\ UNCHANGED <<item_names, topk, bundle, handled, fmVars, modelVars, dsVars>>

\* one pass of the loop: lines 51-56.  Nothing catches what finder or
\* recommender raise, so the exception leaves recommend.
Query ==
    /\ pc = "loop"
    /\ idx <= Len(item_names)
    /\ \E outcome \in RecommenderOutcomes :
       \E r \in {RunQuery(item_names[idx], topk, outcome)} :
          /\ log' = log \o r.entries
          /\ IF r.raised = "no"
             THEN pc' = pc /\ ret' = ret /\ idx' = idx + 1 /\ handled' = handled \cup {idx}
             ELSE pc' = "raised" /\ ret' = r.raised /\ idx' = idx /\ handled' = handled
    /\ UNCHANGED <<item_names, topk, bundle, model, finder, recommender, fmVars, modelVars, dsVars>>

\* the loop is over: recommend returns
LoopEnd ==
    /\ pc = "loop"
    /\ idx > Len(item_names)
    /\ pc' = "returned"
    /\ ret' = "None"
    /\ UNCHANGED <<item_names, topk, bundle, model, finder, recommender, idx, handled, log,
                   fmVars, modelVars, dsVars>>

-----------------------------------------------------------------------------
(* Dataset (nnrecommend.dataset): normalize_ids, create_adjacency_matrix   *)
(* and add_negative_sampling are taken from their description and from     *)
(* what test_dataset asserts of them.  A row is                            *)
(* <<user, item, label, timestamp>>.                                       *)

\* the largest number of rows of a raw dataset
MaxRows == 3
\* the largest number of negatives per positive
MaxNegatives == 2
\* the raw ids of a column
RawIds == {0, 1, 2}
\* the states of the random number generator
RngStates == 0..6
\* the draws after which the sampler takes the item whatever the matrix says
RetryBound == 2

MaxOf(S) == CHOOSE m \in S : \A v \in S : v <= m
MinOf(S) == CHOOSE m \in S : \A v \in S : m <= v

\* the ids of column c (1: users, 2: items) of the rows
Column(rs, c) == {rs[j][c] : j \in 1..Len(rs)}

\* normalize_ids(): the size of a column is its largest raw id plus one, the
\* offsets are the sums of the sizes before the column
IdDiff(rs) == <<0, MaxOf(Column(rs, 1)) + 1>>

\* the rows with the offsets added to their ids
Shift(rs, diff) == [j \in 1..Len(rs) |-> <<rs[j][1] + diff[1], rs[j][2] + diff[2], rs[j][3], rs[j][4]>>]

\* dataset.idrange: per column, the largest id plus one ((943, 2625) in test_dataset)
IdRangeOf(rs) == <<MaxOf(Column(rs, 1)) + 1, MaxOf(Column(rs, 2)) + 1>>

\* a slip: the side is the sum of the entries of idrange
MatrixSideSum(idr) == idr[1] + idr[2]

\* the side of the adjacency matrix: the size of the id space, the last
\* entry of idrange ((2625, 2625) for idrange (943, 2625) in test_dataset)
MatrixSide(idr) == idr[Len(idr)]

\* create_adjacency_matrix(): an edge each way for every row
AdjacencyMatrix(rs, idr) ==
    [side |-> MatrixSide(idr),
     edges |-> {<<rs[j][1], rs[j][2]>> : j \in 1..Len(rs)} \cup {<<rs[j][2], rs[j][1]>> : j \in 1..Len(rs)}]

\* the generator's next state
NextRng(r) == (3 * r + 1) % 7

\* the item the generator's state draws from the item interval [idr[1], idr[2])
DrawItem(idr, r) == idr[1] + (r % (idr[2] - idr[1]))

RECURSIVE SampleItem(_, _, _, _, _)
\* one negative for user u: draw until the pair has no edge in m, at most
\* RetryBound times more, then take what was drawn
SampleItem(m, idr, u, r, tries) ==
    LET j == DrawItem(idr, r) IN
    IF <<u, j>> \in m.edges /\ tries < RetryBound
    THEN SampleItem(m, idr, u, NextRng(r), tries + 1)
    ELSE [item |-> j, rng |-> NextRng(r)]

RECURSIVE Negatives(_, _, _, _, _)
\* the k negatives of the positive row p, and the generator after them
Negatives(m, idr, p, r, k) ==
    IF k = 0 THEN [rows |-> <<>>, rng |-> r]
    ELSE LET s == SampleItem(m, idr, p[1], r, 0)
             rest == Negatives(m, idr, p, s.rng, k - 1)
         IN  [rows |-> << <<p[1], s.item, 0, p[4]>> >> \o rest.rows, rng |-> rest.rng]

RECURSIVE Flatten(_)
Flatten(ss) == IF ss = <<>> THEN <<>> ELSE Head(ss) \o Flatten(Tail(ss))

\* a slip: the negatives go to the end of the rows
PlaceAtEnd(pos, negs) == pos \o Flatten(negs)

\* where the negatives go: each positive is followed by its own
\* (dataset[50*5] and dataset[90000*5] are positives in test_dataset)
Place(pos, negs) == Flatten([j \in 1..Len(pos) |-> <<pos[j]>> \o negs[j]])

RECURSIVE SampleAll(_, _, _, _, _, _)
\* the negatives of every row from row j on, in order, and the generator after them
SampleAll(m, idr, rs, j, r, k) ==
    IF j > Len(rs) THEN [negs |-> <<>>, rng |-> r]
    ELSE LET n == Negatives(m, idr, rs[j], r, k)
             rest == SampleAll(m, idr, rs, j + 1, n.rng, k)
         IN  [negs |-> <<n.rows>> \o rest.negs, rng |-> rest.rng]

InitDataset ==
    /\ ds_pc = "raw"
    /\ \E n \in 1..MaxRows : \E ids \in [1..n -> RawIds \X RawIds] :
          rows = [j \in 1..n |-> <<ids[j][1], ids[j][2], 1, 870 + j>>]
    /\ idrange = <<>> /\ iddiff = <<>>
    /\ matrix = [side |-> 0, edges |-> {}]
    /\ rng \in RngStates
    /\ positives = <<>> /\ num_negatives = 0

\* iddiff = dataset.normalize_ids()
NormalizeIds ==
    /\ ds_pc = "raw"
    /\ \E diff \in {IdDiff(rows)} : \E shifted \in {Shift(rows, diff)} :
          /\ iddiff' = diff
          /\ rows' = shifted
          /\ idrange' = IdRangeOf(shifted)
    /\ ds_pc' = "normalized"
    /\ UNCHANGED <<matrix, rng, positives, num_negatives, fmVars, modelVars, cliVars>>

\* matrix = dataset.create_adjacency_matrix()
CreateAdjacencyMatrix ==
    /\ ds_pc = "normalized"
    /\ matrix.side = 0
    /\ matrix' = AdjacencyMatrix(rows, idrange)
    /\ UNCHANGED <<ds_pc, rows, idrange, iddiff, rng, positives, num_negatives,
                   fmVars, modelVars, cliVars>>

\* dataset.add_negative_sampling(matrix, k)
AddNegativeSampling ==
    /\ ds_pc = "normalized"
    /\ matrix.side > 0
    /\ \E k \in 1..MaxNegatives : \E s \in {SampleAll(matrix, idrange, rows, 1, rng, k)} :
          /\ rows' = Place(rows, s.negs)
          /\ rng' = s.rng
          /\ num_negatives' = k
    /\ positives' = rows
    /\ ds_pc' = "sampled"
    /\ UNCHANGED <<idrange, iddiff, matrix, fmVars, modelVars, cliVars>>

-----------------------------------------------------------------------------
IdleCLI ==
    /\ pc = "idle" /\ ret = "running" /\ item_names = <<>> /\ topk = 0
    /\ bundle = [raises |-> FALSE, model |-> "None"] /\ model = "unset"
    /\ finder = FALSE /\ recommender = FALSE /\ idx = 0 /\ handled = {} /\ log = <<>>
IdleDS ==
    /\ ds_pc = "idle" /\ rows = <<>> /\ idrange = <<>> /\ iddiff = <<>>
    /\ matrix = [side |-> 0, edges |-> {}]
    /\ rng = 0 /\ positives = <<>> /\ num_negatives = 0

InitSpecFM == InitFM /\ IdleModel /\ IdleCLI /\ IdleDS
NextFM == FMCall
SpecFM == InitSpecFM /\ [][NextFM]_vars

NextModel == CallGetEmbeddingWeight \/ CallForwardPlain \/ CallForwardGraph
InitSpecModel == InitModel /\ IdleFM /\ IdleCLI /\ IdleDS
SpecModel == InitSpecModel /\ [][NextModel]_vars

NextRecommend == ReadModelFile \/ Query \/ LoopEnd
InitSpecRecommend == InitRecommend /\ IdleFM /\ IdleModel /\ IdleDS
SpecRecommend == InitSpecRecommend /\ [][NextRecommend]_vars

NextDataset == NormalizeIds \/ CreateAdjacencyMatrix \/ AddNegativeSampling
InitSpecDataset == InitDataset /\ IdleFM /\ IdleModel /\ IdleCLI
SpecDataset == InitSpecDataset /\ [][NextDataset]_vars

-----------------------------------------------------------------------------
(* Claims about the scoring model *)

\* the dot product of two vectors
Dot(u, v) == SumSeq([d \in 1..Len(u) |-> u[d] * v[d]])

\* the brute-force interaction of one example: the sum over the unordered
\* pairs of fields f < g of the dot product of their vectors
PairwiseSum(ex) ==
    SumSeq([f \in 1..Len(ex) |->
              SumSeq([g \in 1..Len(ex) |-> IF f < g THEN Dot(ex[f], ex[g]) ELSE 0])])

\* sum over the dimensions d of (sum_f v_f,d)^2 - sum_f v_f,d^2, written out
PolynomialSum(ex) ==
    SumSeq([d \in 1..Len(ex[1]) |->
              LET s == SumSeq([f \in 1..Len(ex) |-> ex[f][d]])
              IN  s * s - SumSeq([f \in 1..Len(ex) |-> ex[f][d] * ex[f][d]])])

\* C1: with reduce_sum=True, forward returns for every example of the batch
\* one number, half the polynomial sum of its field vectors, and that number
\* is the brute-force sum over all unordered pairs of fields of their dot
\* products.
C1_InteractionIsPairwiseSum ==
    (fm_out # <<>> /\ fm_reduce_sum) =>
        /\ Len(fm_out) = Len(fm_x)
        /\ \A b \in 1..Len(fm_x) :
              /\ Len(fm_out[b]) = 1
              /\ 2 * fm_out[b][1] = PolynomialSum(fm_x[b])
              /\ fm_out[b][1] = PairwiseSum(fm_x[b])

C1_Witness ==
    /\ fm_out # <<>> /\ fm_reduce_sum
    /\ Len(fm_x[1]) = 3 /\ Len(fm_x[1][1]) = 2
    /\ fm_x[1] = << <<2, -1>>, <<-1, 1>>, <<1, 2>> >>
    /\ fm_out = << <<-2>> >>

\* C3 (as claimed): whenever get_embedding_weight() returns, the matrix has
\* the shape (field_dim, embed_dim), whatever the embedding variant.
C3_ShapeIsFieldDimByEmbedDim ==
    ew.kind = "ok" => ew.shape = <<field_dim, embed_dim>>

\* C7: forward returns one number per row of the batch, and the number of a
\* row is the sum of the weights of its ids plus the bias plus the pairwise
\* interaction of the embeddings looked up for its ids, nothing else applied.
C7_ScoreIsLinearPlusInteraction ==
    fwd.out # <<>> =>
        /\ Len(fwd.out) = Len(fwd.x)
        /\ \A b \in 1..Len(fwd.x) :
              /\ fwd.out[b] \in Int
              /\ fwd.out[b] = SumSeq([f \in 1..Len(fwd.x[b]) |-> linear.fc[fwd.x[b][f]]])
                                + linear.bias + PairwiseSum(fwd.emb[b])
              /\ \A f \in 1..Len(fwd.x[b]) :
                    /\ embedding.class = "Embedding" => fwd.emb[b][f] = embedding.weight[fwd.x[b][f]]
                    /\ \A c \in 1..Len(fwd.x) : \A g \in 1..Len(fwd.x[c]) :
                          fwd.x[b][f] = fwd.x[c][g] => fwd.emb[b][f] = fwd.emb[c][g]

C7_Witness ==
    /\ fwd.out # <<>>
    /\ embedding.class = "GraphModel"
    /\ Len(fwd.x) = 2 /\ Len(fwd.x[1]) = 3
    /\ linear.bias = 2
    /\ fwd.x[1] # fwd.x[2]
    /\ fwd.out[1] # fwd.out[2]

\* C8 (as claimed): when get_embedding_weight() fails, it fails with
\* UnsupportedOperation and with no other error.
C8_OnlyUnsupportedOperation ==
    ew.kind = "raise" => ew.exc = "UnsupportedOperation"

-----------------------------------------------------------------------------
(* Claims about the recommend command *)

\* the loop has run for a query whose name matches no row of the catalog
BadQueryTried ==
    \E i \in 1..Len(item_names) :
        /\ item_names[i] \notin DOMAIN Catalog
        /\ i < idx \/ (i = idx /\ pc = "raised")

\* C2 (as claimed): in an invocation with several queries, once the loop has
\* run for a query that matches nothing, the failure is logged as an error
\* and the invocation is not aborted: it goes on, and returns only with every
\* query gone through.
C2_BadQueryDoesNotAbort ==
    (finder /\ Len(item_names) >= 2 /\ BadQueryTried /\ ret # "RuntimeError") =>
        /\ pc \in {"loop", "returned"}
        /\ pc = "returned" => idx = Len(item_names) + 1
        /\ \E j \in 1..Len(log) : log[j].level = "error"

\* the model bundle failed to load
LoadFailed == pc # "start" /\ (bundle.raises \/ bundle.model = "None")

-----------------------------------------------------------------------------
(* Claims about the Dataset *)

\* the indices of the rows add_negative_sampling added: all but every
\* (num_negatives + 1)-th, which are the positives
Added == {j \in 1..Len(rows) : (j - 1) % (num_negatives + 1) # 0}

\* C4 (as claimed): after add_negative_sampling(matrix, k) on n positive rows
\* the dataset has n * (k + 1) rows, and every added row has the label 0 and
\* a (user, item) pair with no edge in the matrix.
C4_NegativesHaveNoEdge ==
    ds_pc = "sampled" =>
        /\ Len(rows) = Len(positives) * (num_negatives + 1)
        /\ \A j \in Added :
              /\ rows[j][3] = 0
              /\ <<rows[j][1], rows[j][2]>> \notin matrix.edges

IntervalStart(c) == IF c = 1 THEN 0 ELSE idrange[c - 1]
IntervalEnd(c) == idrange[c]

\* C6 (as claimed): after normalize_ids() the smallest id of every column is
\* the start of the column's interval and the largest is its end minus one.
C6_ColumnsFillTheirIntervals ==
    ds_pc = "normalized" =>
        \A c \in 1..2 :
            /\ MinOf(Column(rows, c)) = IntervalStart(c)
            /\ MaxOf(Column(rows, c)) = IntervalEnd(c) - 1

=============================================================================
